---- MODULE Spec2Model ----
(***************************************************************************)
(* A model of the game-scores API: the score handlers (join, update,       *)
(* statistics), the game handler, and the rows they read and write through *)
(* the ent client.  The handlers are translated step by step from          *)
(* internal/handlers; every database call is one atomic step.              *)
(***************************************************************************)
EXTENDS Integers, Sequences, FiniteSets, TLC

VARIABLES
    games,      \* the rows of table "games": records [id, name]
    scores,     \* the rows of table "scores": records [id, user, game, value]
    inflight,   \* per worker: the request being served between two database calls
    last,       \* the request served last and the response written for it
    hist,       \* per (user, game): the highest value a 200-answered update has stored
    statIn,     \* the slice handed to the statistics functions
    statOut,    \* what they wrote through their result pointers
    users,      \* the rows of table "users": records [id, username, email, hash, role]
    board,      \* the body of the leaderboard response written last
    authz,      \* the Authorization header of the request the middleware saw last
    reset       \* the reset tool: "idle" when it is not running, else the step it is at

vars == <<games, scores, inflight, last, hist, statIn, statOut, users, board, authz, reset>>

(***************************************************************************)
(* Bounds of the model.                                                    *)
(***************************************************************************)
\* int64 is scaled down to IntBits bits (two's complement), so that range
\* errors and wrap-around are reached by short inputs.
IntBits == 3
\* the longest slice handed to the statistics functions
MaxStatLen == 3
\* the longest slice over ModeValues handed to calculateMode
MaxModeLen == 5
\* the most users registration adds to the accounts
MaxRegistered == 2

MinInt64 == -(2 ^ (IntBits - 1))
MaxInt64 == (2 ^ (IntBits - 1)) - 1
Int64 == MinInt64 .. MaxInt64

\* Go's signed arithmetic wraps around silently.
Wrap(x) == ((x - MinInt64) % (2 ^ IntBits)) + MinInt64

\* Go's integer division truncates toward zero (b > 0 here).
Quo(a, b) == IF a >= 0 THEN a \div b ELSE -((-a) \div b)

None == "none"

\* no response score / no row
NoString == <<>>
NoRow == [id |-> 0, user |-> "", game |-> 0, value |-> 0]

(***************************************************************************)
(* strconv: strings are sequences of one-character strings.                *)
(***************************************************************************)
DigitVal(c) ==
    CASE c = "0" -> 0 [] c = "1" -> 1 [] c = "2" -> 2 [] c = "3" -> 3
      [] c = "4" -> 4 [] c = "5" -> 5 [] c = "6" -> 6 [] c = "7" -> 7
      [] c = "8" -> 8 [] c = "9" -> 9 [] OTHER -> -1

DigitChar(d) == <<"0", "1", "2", "3", "4", "5", "6", "7", "8", "9">>[d + 1]

RECURSIVE ParseUint(_)
\* strconv.ParseUint(s, 10, 64) on a non-empty s: -1 for a syntax error, else the value
ParseUint(s) ==
    IF Len(s) = 0 THEN 0
    ELSE LET d == DigitVal(s[Len(s)])
             hi == ParseUint(SubSeq(s, 1, Len(s) - 1))
         IN  IF d < 0 \/ hi < 0 THEN -1 ELSE hi * 10 + d

\* strconv.ParseInt(s, 10, 64): [err |-> "syntax" | "range" | None, val]
ParseInt(s) ==
    IF Len(s) = 0 THEN [err |-> "syntax", val |-> 0]
    ELSE LET neg == s[1] = "-"
             signed == s[1] \in {"+", "-"}
             rest == IF signed THEN SubSeq(s, 2, Len(s)) ELSE s
             un == IF Len(rest) = 0 THEN -1 ELSE ParseUint(rest)
         IN  IF un < 0 THEN [err |-> "syntax", val |-> 0]
             ELSE IF ~neg /\ un > MaxInt64 THEN [err |-> "range", val |-> MaxInt64]
             ELSE IF neg /\ un > -MinInt64 THEN [err |-> "range", val |-> MinInt64]
             ELSE [err |-> None, val |-> IF neg THEN -un ELSE un]

RECURSIVE FormatUint(_)
FormatUint(n) ==
    IF n < 10 THEN <<DigitChar(n)>>
    ELSE Append(FormatUint(n \div 10), DigitChar(n % 10))

\* a formatter that writes the sign of positive numbers too
FormatIntSigned(v) ==
    IF v < 0 THEN <<"-">> \o FormatUint(-v)
    ELSE IF v > 0 THEN <<"+">> \o FormatUint(v)
    ELSE FormatUint(v)

\* strconv.FormatInt(v, 10)
FormatInt(v) == IF v < 0 THEN <<"-">> \o FormatUint(-v) ELSE FormatUint(v)

(***************************************************************************)
(* Requests.                                                               *)
(***************************************************************************)
\* The claims a verified token carries (auth.JWTClaims): user id and role.
Claims ==
    { [user |-> "u1", role |-> "player"],
      [user |-> "adm", role |-> "admin"] }

UserIDs == {c.user : c \in Claims}

\* The {gameID} path parameter.
GameIDParams == {<<"1">>, <<"3">>, <<"x">>}

\* Game ids a path parameter can name.
GameIDs == {ParseInt(s).val : s \in {t \in GameIDParams : ParseInt(t).err = None}}

\* Request bodies.  kind "object" is one JSON object with exactly the
\* fields of the destination struct (a missing field leaves the zero value
\* ""); the other kinds are the bodies DecodeJSONBody refuses.
BadBodyKinds == {"syntax", "type", "unknown_field", "empty", "multiple"}

\* The score strings requests carry: plain, zero-padded, signed, empty,
\* non-numeric, and one beyond the integer range.
ScoreInputs ==
    { <<>>, <<"0">>, <<"1">>, <<"2">>, <<"3">>, <<"0", "1">>, <<"+", "2">>,
      <<"-", "0">>, <<"-", "1">>, <<"9">>, <<"x">>, <<"1", "x">> }

UpdateBodies ==
    {[kind |-> k, score |-> <<>>] : k \in BadBodyKinds}
        \cup {[kind |-> "object", score |-> s] : s \in ScoreInputs}

GameNames == {"", "chess"}

AddGameBodies ==
    {[kind |-> k, name |-> ""] : k \in BadBodyKinds}
        \cup {[kind |-> "object", name |-> n] : n \in GameNames}

NoBody == [kind |-> "nobody"]

\* DecodeJSONBody without its second Decode: values after the first are ignored
DecodeJSONBodyFirstValueOnly(body) == body.kind \notin {"object", "multiple"}

\* decoder.DecodeJSONBody: TRUE when it returns an error (having written 400)
DecodeJSONBodyFails(body) == body.kind # "object"

(***************************************************************************)
(* The ent client: queries and builders over the rows.                     *)
(***************************************************************************)
\* the query without HasUserWith: the rows of the game, whoever owns them
ScoresOfAnyUser(rows, u, g) == {r \in rows : r.game = g}

\* Score.Query().Where(HasUserWith(user.ID(u)), HasGameWith(game.ID(g)))
ScoresOf(rows, u, g) == {r \in rows : r.user = u /\ r.game = g}

\* an Exist query that finds every game id
GameExistsAlways(gm, g) == TRUE

\* Game.Query().Where(game.ID(g)).Exist
GameExists(gm, g) == \E x \in gm : x.id = g

NextID(rows) == IF rows = {} THEN 1 ELSE 1 + CHOOSE m \in {r.id : r \in rows} : \A r \in rows : r.id <= m

\* The value a row created without SetValue holds.
DefaultScoreValue == 0

\* Score.Create().SetUserID(u).SetGameID(g).Save: the edge to the game is a
\* foreign key, so a missing game is a constraint error; there is no unique
\* index over (user, game).
ScoreCreate(rows, gm, u, g) ==
    IF ~GameExists(gm, g)
    THEN [err |-> "constraint", rows |-> rows, value |-> 0]
    ELSE [err |-> None,
          rows |-> rows \cup {[id |-> NextID(rows), user |-> u, game |-> g,
                                value |-> DefaultScoreValue]},
          value |-> DefaultScoreValue]

\* field.Int64("value").Positive(): the validator the builders run on a set value
ValueValidator(v) == v > 0

\* ScoreUpdateOne as a conditional UPDATE ... WHERE value <= v, which touches no
\* row once a higher value is stored
ScoreUpdateOneGuarded(rows, rec, v) ==
    IF ~ValueValidator(v) THEN [err |-> "validation", rows |-> rows, value |-> rec.value]
    ELSE IF ~\E r \in rows : r.id = rec.id /\ r.value <= v
    THEN [err |-> "not_found", rows |-> rows, value |-> rec.value]
    ELSE [err |-> None,
          rows |-> {IF r.id = rec.id THEN [r EXCEPT !.value = v] ELSE r : r \in rows},
          value |-> v]

\* scoreToUpdate.Update().SetValue(v).Save: validates, then updates the row
\* with the entity's id.
ScoreUpdateOne(rows, rec, v) ==
    IF ~ValueValidator(v) THEN [err |-> "validation", rows |-> rows, value |-> rec.value]
    ELSE IF ~\E r \in rows : r.id = rec.id
    THEN [err |-> "not_found", rows |-> rows, value |-> rec.value]
    ELSE [err |-> None,
          rows |-> {IF r.id = rec.id THEN [r EXCEPT !.value = v] ELSE r : r \in rows},
          value |-> v]

\* Game.Create on a table without the unique index over name
GameCreateNoUnique(gm, n) ==
    IF n = "" THEN [err |-> "validation", rows |-> gm]
    ELSE [err |-> None, rows |-> gm \cup {[id |-> NextID(gm), name |-> n]}]

\* Game.Create().SetName(n).Save: name is Unique and NotEmpty
GameCreate(gm, n) ==
    IF n = "" THEN [err |-> "validation", rows |-> gm]
    ELSE IF \E x \in gm : x.name = n THEN [err |-> "constraint", rows |-> gm]
    ELSE [err |-> None, rows |-> gm \cup {[id |-> NextID(gm), name |-> n]}]

(***************************************************************************)
(* The handlers, as functions of the rows they see.  Each is cut where the *)
(* code goes back to the database: what is read by one call may be stale   *)
(* when the next call writes.                                              *)
(***************************************************************************)
\* strconv.Atoi is ParseInt(s, 10, 0)
Atoi(s) == ParseInt(s)

\* JoinGame without its Exist query
JoinGameCheckSkipped(rows, c, gid) ==
    LET p == Atoi(gid)
    IN  IF p.err # None THEN [done |-> TRUE, status |-> 400, game |-> 0]
        ELSE [done |-> FALSE, status |-> 0, game |-> p.val]

\* JoinGame up to and including the Exist query
JoinGameCheck(rows, c, gid) ==
    LET p == Atoi(gid)
    IN  IF p.err # None THEN [done |-> TRUE, status |-> 400, game |-> 0]
        ELSE IF ScoresOf(rows, c.user, p.val) # {}
        THEN [done |-> TRUE, status |-> 409, game |-> p.val]
        ELSE [done |-> FALSE, status |-> 0, game |-> p.val]

\* JoinGame without w.WriteHeader(http.StatusCreated): the status stays 200
JoinGameCreateNoHeader(rows, gm, u, g) ==
    LET s == ScoreCreate(rows, gm, u, g)
    IN  IF s.err # None THEN [status |-> 500, rows |-> rows, ret |-> NoString]
        ELSE [status |-> 200, rows |-> s.rows, ret |-> FormatInt(s.value)]

\* JoinGame from the Create on
JoinGameCreate(rows, gm, u, g) ==
    LET s == ScoreCreate(rows, gm, u, g)
    IN  IF s.err # None THEN [status |-> 500, rows |-> rows, ret |-> NoString]
        ELSE [status |-> 201, rows |-> s.rows, ret |-> FormatInt(s.value)]

\* UpdateGameScore without the ent.IsNotFound branch: every query error is a 500
UpdateGameScoreFindNoNotFound(rows, c, gid, body) ==
    LET p == Atoi(gid)
        found == ScoresOf(rows, c.user, p.val)
    IN  IF p.err # None THEN [done |-> TRUE, status |-> 400, rec |-> NoRow]
        ELSE IF DecodeJSONBodyFails(body) THEN [done |-> TRUE, status |-> 400, rec |-> NoRow]
        ELSE IF Cardinality(found) # 1 THEN [done |-> TRUE, status |-> 500, rec |-> NoRow]
        ELSE [done |-> FALSE, status |-> 0, rec |-> CHOOSE r \in found : TRUE]

\* UpdateGameScore up to and including the Only query
UpdateGameScoreFind(rows, c, gid, body) ==
    LET p == Atoi(gid)
        found == ScoresOf(rows, c.user, p.val)
    IN  IF p.err # None THEN [done |-> TRUE, status |-> 400, rec |-> NoRow]
        ELSE IF DecodeJSONBodyFails(body) THEN [done |-> TRUE, status |-> 400, rec |-> NoRow]
        ELSE IF found = {} THEN [done |-> TRUE, status |-> 404, rec |-> NoRow]
        ELSE IF Cardinality(found) > 1 THEN [done |-> TRUE, status |-> 500, rec |-> NoRow]
        ELSE [done |-> FALSE, status |-> 0, rec |-> CHOOSE r \in found : TRUE]

\* UpdateGameScore without its monotonicity check
ScoreRefusedNever(newScore, current) == FALSE

\* The monotonicity check of UpdateGameScore: TRUE when the new score is refused
ScoreRefused(newScore, current) == newScore < current

\* UpdateGameScore comparing with the stored value before it looks at the
\* error of ParseInt
UpdateGameScoreSaveCompareFirst(rows, scoreToUpdate, body) ==
    LET newScore == ParseInt(body.score)
        upd == ScoreUpdateOne(rows, scoreToUpdate, newScore.val)
    IN  IF ScoreRefused(newScore.val, scoreToUpdate.value)
        THEN [status |-> 406, rows |-> rows, ret |-> NoString]
        ELSE IF newScore.err # None THEN [status |-> 400, rows |-> rows, ret |-> NoString]
        ELSE IF upd.err # None THEN [status |-> 500, rows |-> rows, ret |-> NoString]
        ELSE [status |-> 200, rows |-> upd.rows, ret |-> FormatInt(upd.value)]

\* UpdateGameScore writing the parsed score with neither the comparison nor
\* the validator of the builder
UpdateGameScoreSaveUnchecked(rows, scoreToUpdate, body) ==
    LET newScore == ParseInt(body.score)
    IN  IF newScore.err # None THEN [status |-> 400, rows |-> rows, ret |-> NoString]
        ELSE [status |-> 200,
              rows |-> {IF r.id = scoreToUpdate.id THEN [r EXCEPT !.value = newScore.val]
                        ELSE r : r \in rows},
              ret |-> FormatInt(newScore.val)]

\* UpdateGameScore from ParseInt on; scoreToUpdate is the entity read before
UpdateGameScoreSave(rows, scoreToUpdate, body) ==
    LET newScore == ParseInt(body.score)
        upd == ScoreUpdateOne(rows, scoreToUpdate, newScore.val)
    IN  IF newScore.err # None THEN [status |-> 400, rows |-> rows, ret |-> NoString]
        ELSE IF ScoreRefused(newScore.val, scoreToUpdate.value)
        THEN [status |-> 406, rows |-> rows, ret |-> NoString]
        ELSE IF upd.err # None THEN [status |-> 500, rows |-> rows, ret |-> NoString]
        ELSE [status |-> 200, rows |-> upd.rows, ret |-> FormatInt(upd.value)]

\* AddGame without its role check
AddGameOutcomeNoRoleCheck(gm, c, body) ==
    LET g == GameCreate(gm, body.name)
    IN  IF DecodeJSONBodyFails(body) THEN [status |-> 400, rows |-> gm]
        ELSE IF body.name = "" THEN [status |-> 400, rows |-> gm]
        ELSE IF g.err = "constraint" THEN [status |-> 409, rows |-> gm]
        ELSE IF g.err # None THEN [status |-> 500, rows |-> gm]
        ELSE [status |-> 201, rows |-> g.rows]

\* AddGame, whole
AddGameOutcome(gm, c, body) ==
    LET g == GameCreate(gm, body.name)
    IN  IF c.role # "admin" THEN [status |-> 403, rows |-> gm]
        ELSE IF DecodeJSONBodyFails(body) THEN [status |-> 400, rows |-> gm]
        ELSE IF body.name = "" THEN [status |-> 400, rows |-> gm]
        ELSE IF g.err = "constraint" THEN [status |-> 409, rows |-> gm]
        ELSE IF g.err # None THEN [status |-> 500, rows |-> gm]
        ELSE [status |-> 201, rows |-> g.rows]

(***************************************************************************)
(* State.                                                                  *)
(***************************************************************************)
Workers == {"w1", "w2"}

Idle == [pc |-> "idle"]

Pairs == UserIDs \X GameIDs

\* what is recorded of a served request: the request, the status written,
\* the score in the response body (ret, as its text) and the row the handler
\* read (cur; NoRow when it read none)
Served(op, c, gid, body, status, ret, cur) ==
    [op |-> op, user |-> c.user, role |-> c.role, gid |-> gid, body |-> body,
     status |-> status, ret |-> ret, cur |-> cur]

NoRequest == Served("none", [user |-> "", role |-> ""], NoString, NoBody, 0, NoString, NoRow)

\* the statistics response body not written
NoStatsBody == [mean |-> <<>>, median |-> <<>>, mode |-> <<>>]

NoStats == [done |-> FALSE, mean |-> 0, median |-> 0, mode |-> <<>>, body |-> NoStatsBody]

\* no Authorization header, no claims
NoClaims == [user |-> "", role |-> ""]
NoHeader == [present |-> FALSE, signed |-> FALSE, expired |-> FALSE, claims |-> NoClaims]

\* The accounts of the users whose tokens the requests carry: the admin the
\* seeder creates and one registered player.
Accounts ==
    { [id |-> "adm", username |-> <<"a", "d", "m", "i", "n">>,
       email |-> <<"a", "@", "x">>, hash |-> [bcrypt |-> <<"a", "d", "m", "i", "n", "1", "2", "3", "!">>],
       role |-> "admin"],
      [id |-> "u1", username |-> <<"a", "n", "n">>,
       email |-> <<"n", "@", "x">>, hash |-> [bcrypt |-> <<"p", "p", "p", "p", "p", "p", "p", "p">>],
       role |-> "player"] }

Max(a, b) == IF a >= b THEN a ELSE b

Accepted(h, status, u, g, v) ==
    IF status = 200 THEN [h EXCEPT ![<<u, g>>] = Max(@, v)] ELSE h

Init ==
    /\ games = {}
    /\ scores = {}
    /\ inflight = [w \in Workers |-> Idle]
    /\ last = NoRequest
    /\ hist = [p \in Pairs |-> 0]
    /\ statIn = <<>>
    /\ statOut = NoStats
    /\ users = Accounts
    /\ board = <<>>
    /\ authz = NoHeader
    /\ reset = "idle"

(***************************************************************************)
(* Requests served one at a time: each action is a whole handler.          *)
(***************************************************************************)
AddGame(c, body) ==
    LET out == AddGameOutcome(games, c, body)
    IN  /\ games' = out.rows
        /\ last' = Served("addgame", c, NoString, body, out.status, NoString, NoRow)
        /\ UNCHANGED <<scores, inflight, hist, statIn, statOut, users, board, authz, reset>>

JoinGame(c, gid) ==
    LET chk == JoinGameCheck(scores, c, gid)
        out == JoinGameCreate(scores, games, c.user, chk.game)
    IN  /\ IF chk.done
           THEN /\ scores' = scores
                /\ last' = Served("join", c, gid, NoBody, chk.status, NoString, NoRow)
           ELSE /\ scores' = out.rows
                /\ last' = Served("join", c, gid, NoBody, out.status, out.ret, NoRow)
        /\ UNCHANGED <<games, inflight, hist, statIn, statOut, users, board, authz, reset>>

UpdateGameScore(c, gid, body) ==
    LET fnd == UpdateGameScoreFind(scores, c, gid, body)
        out == UpdateGameScoreSave(scores, fnd.rec, body)
    IN  /\ IF fnd.done
           THEN /\ scores' = scores
                /\ hist' = hist
                /\ last' = Served("update", c, gid, body, fnd.status, NoString, NoRow)
           ELSE /\ scores' = out.rows
                /\ hist' = Accepted(hist, out.status, fnd.rec.user, fnd.rec.game,
                                    ParseInt(body.score).val)
                /\ last' = Served("update", c, gid, body, out.status, out.ret,
                                  fnd.rec)
        /\ UNCHANGED <<games, inflight, statIn, statOut, users, board, authz, reset>>

Next ==
    \/ \E c \in Claims, body \in AddGameBodies : AddGame(c, body)
    \/ \E c \in Claims, gid \in GameIDParams : JoinGame(c, gid)
    \/ \E c \in Claims, gid \in GameIDParams, body \in UpdateBodies :
           UpdateGameScore(c, gid, body)

Spec == Init /\ [][Next]_vars

(***************************************************************************)
(* Requests served concurrently: net/http runs every request in its own    *)
(* goroutine, so a worker may be between the database call that reads and  *)
(* the one that writes while another worker's calls run.                   *)
(***************************************************************************)
JoinGameBegin(w, c, gid) ==
    LET chk == JoinGameCheck(scores, c, gid)
    IN  /\ inflight[w] = Idle
        /\ IF chk.done
           THEN /\ last' = Served("join", c, gid, NoBody, chk.status, NoString, NoRow)
                /\ inflight' = inflight
           ELSE /\ last' = last
                /\ inflight' = [inflight EXCEPT ![w] =
                       [pc |-> "join", c |-> c, gid |-> gid, game |-> chk.game]]
        /\ UNCHANGED <<games, scores, hist, statIn, statOut, users, board, authz, reset>>

JoinGameEnd(w) ==
    LET rq == inflight[w]
        out == JoinGameCreate(scores, games, rq.c.user, rq.game)
    IN  /\ rq.pc = "join"
        /\ scores' = out.rows
        /\ last' = Served("join", rq.c, rq.gid, NoBody, out.status, out.ret, NoRow)
        /\ inflight' = [inflight EXCEPT ![w] = Idle]
        /\ UNCHANGED <<games, hist, statIn, statOut, users, board, authz, reset>>

UpdateGameScoreBegin(w, c, gid, body) ==
    LET fnd == UpdateGameScoreFind(scores, c, gid, body)
    IN  /\ inflight[w] = Idle
        /\ IF fnd.done
           THEN /\ last' = Served("update", c, gid, body, fnd.status, NoString, NoRow)
                /\ inflight' = inflight
           ELSE /\ last' = last
                /\ inflight' = [inflight EXCEPT ![w] =
                       [pc |-> "update", c |-> c, gid |-> gid, body |-> body,
                        rec |-> fnd.rec]]
        /\ UNCHANGED <<games, scores, hist, statIn, statOut, users, board, authz, reset>>

UpdateGameScoreEnd(w) ==
    LET rq == inflight[w]
        out == UpdateGameScoreSave(scores, rq.rec, rq.body)
    IN  /\ rq.pc = "update"
        /\ scores' = out.rows
        /\ hist' = Accepted(hist, out.status, rq.rec.user, rq.rec.game,
                            ParseInt(rq.body.score).val)
        /\ last' = Served("update", rq.c, rq.gid, rq.body, out.status, out.ret,
                          rq.rec)
        /\ inflight' = [inflight EXCEPT ![w] = Idle]
        /\ UNCHANGED <<games, statIn, statOut, users, board, authz, reset>>

\* the requests the concurrent runs draw from
ConcGameIDParams == {<<"1">>}

ConcBodies == {[kind |-> "object", score |-> s] : s \in {<<"1">>, <<"2">>, <<"3">>}}

ConcAddGameBodies == {[kind |-> "object", name |-> "chess"]}

ConcPlayers == {c \in Claims : c.role = "player"}

NextConc ==
    \/ \E c \in Claims, body \in ConcAddGameBodies : AddGame(c, body)
    \/ \E w \in Workers, c \in ConcPlayers, gid \in ConcGameIDParams : JoinGameBegin(w, c, gid)
    \/ \E w \in Workers : JoinGameEnd(w)
    \/ \E w \in Workers, c \in ConcPlayers, gid \in ConcGameIDParams, body \in ConcBodies :
           UpdateGameScoreBegin(w, c, gid, body)
    \/ \E w \in Workers : UpdateGameScoreEnd(w)

SpecConc == Init /\ [][NextConc]_vars

(***************************************************************************)
(* The statistics functions, applied to arbitrary slices.                  *)
(***************************************************************************)
RECURSIVE SumLoop(_, _)
\* the loop of calculateMean: sum += score, in int64
SumLoop(scoresArray, sum) ==
    IF scoresArray = <<>> THEN sum
    ELSE SumLoop(Tail(scoresArray), Wrap(sum + Head(scoresArray)))

\* calculateMean with a division that rounds toward minus infinity
calculateMeanFloor(scoresArray) == SumLoop(scoresArray, 0) \div Len(scoresArray)

calculateMean(scoresArray) == Quo(SumLoop(scoresArray, 0), Len(scoresArray))

\* calculateMedian; scoresArray[mid-1] and scoresArray[mid] of the code are
\* scoresArray[mid] and scoresArray[mid + 1] here (sequences start at 1)
calculateMedian(scoresArray) ==
    LET mid == Len(scoresArray) \div 2
    IN  IF Len(scoresArray) % 2 = 0
        THEN Quo(Wrap(scoresArray[mid] + scoresArray[mid + 1]), 2)
        ELSE scoresArray[mid + 1]

\* frequency[score] after the first loop of calculateMode
Frequency(scoresArray, score) ==
    Cardinality({i \in 1 .. Len(scoresArray) : scoresArray[i] = score})

\* maxFreq after the first loop of calculateMode
MaxFreq(scoresArray) ==
    CHOOSE f \in 0 .. Len(scoresArray) :
        /\ \A i \in 1 .. Len(scoresArray) : Frequency(scoresArray, scoresArray[i]) <= f
        /\ (f = 0 \/ \E i \in 1 .. Len(scoresArray) : Frequency(scoresArray, scoresArray[i]) = f)

\* the sequences that list every element of S once
Perms(S) ==
    {q \in [1 .. Cardinality(S) -> S] : \A i, j \in 1 .. Cardinality(S) : i # j => q[i] # q[j]}

\* calculateMode without its maxFreq == 1 case
calculateModeNoUniqueCase(scoresArray) ==
    Perms({scoresArray[i] : i \in {j \in 1 .. Len(scoresArray) :
              Frequency(scoresArray, scoresArray[j]) = MaxFreq(scoresArray)}})

\* calculateMode: the slices it can leave in *mode.  The second loop ranges
\* over a map, whose iteration order Go leaves unspecified.
calculateMode(scoresArray) ==
    IF MaxFreq(scoresArray) = 1 THEN {<<>>}
    ELSE Perms({scoresArray[i] : i \in {j \in 1 .. Len(scoresArray) :
                    Frequency(scoresArray, scoresArray[j]) = MaxFreq(scoresArray)}})

StatInputs == UNION {[1 .. n -> Int64] : n \in 1 .. MaxStatLen}

\* longer slices over few values, for the frequencies of calculateMode
ModeValues == {1, 2, 3}
ModeInputs == UNION {[1 .. n -> ModeValues] : n \in MaxStatLen + 1 .. MaxModeLen}

InitStats ==
    /\ games = {}
    /\ scores = {}
    /\ inflight = [w \in Workers |-> Idle]
    /\ last = NoRequest
    /\ hist = [p \in Pairs |-> 0]
    /\ statIn \in StatInputs \cup ModeInputs
    /\ statOut = NoStats
    /\ users = Accounts
    /\ board = <<>>
    /\ authz = NoHeader
    /\ reset = "idle"

CalculateStatistics ==
    /\ ~statOut.done
    /\ \E mode \in calculateMode(statIn) :
           statOut' = [done |-> TRUE, mean |-> calculateMean(statIn),
                       median |-> calculateMedian(statIn), mode |-> mode,
                       body |-> NoStatsBody]
    /\ UNCHANGED <<games, scores, inflight, last, hist, statIn, users, board, authz, reset>>

NextStats == CalculateStatistics

SpecStats == InitStats /\ [][NextStats]_vars

(***************************************************************************)
(* The read handlers: leaderboard and statistics of a game.                *)
(***************************************************************************)
\* Score.Query().Where(HasGameWith(game.ID(g)))
ScoresOfGame(rows, g) == {r \in rows : r.game = g}

\* the query without Order(ent.Desc(score.FieldValue)): rows in any order
OrderAny(S) == Perms(S)

\* Order(ent.Desc(score.FieldValue)).All: the rows by value descending; the
\* order among equal values is the database's choice
OrderDesc(S) ==
    {q \in Perms(S) : \A i \in 1 .. Len(q) - 1 : q[i].value >= q[i + 1].value}

\* s.Edges.User.Username
UsernameOf(us, id) == (CHOOSE x \in us : x.id = id).username

\* the GameStatisticsResponse built from mean, median and mode
StatisticsBody(mean, median, mode) ==
    [mean |-> FormatInt(mean), median |-> FormatInt(median),
     mode |-> [i \in 1 .. Len(mode) |-> FormatInt(mode[i])]]

\* the statistics branch answering an empty mode list for no scores
StatisticsOfEmptyMode(scoresArray) ==
    IF Len(scoresArray) = 0
    THEN {[done |-> TRUE, mean |-> 0, median |-> 0, mode |-> <<>>,
           body |-> StatisticsBody(0, 0, <<>>)]}
    ELSE {[done |-> TRUE, mean |-> calculateMean(scoresArray),
           median |-> calculateMedian(scoresArray), mode |-> mode,
           body |-> StatisticsBody(calculateMean(scoresArray),
                                   calculateMedian(scoresArray), mode)] :
             mode \in calculateMode(scoresArray)}

\* ListGameScoreStatistics from scoresArray on: the results it can respond with
StatisticsOf(scoresArray) ==
    IF Len(scoresArray) = 0
    THEN {[done |-> TRUE, mean |-> 0, median |-> 0, mode |-> <<0>>,
           body |-> StatisticsBody(0, 0, <<0>>)]}
    ELSE {[done |-> TRUE, mean |-> calculateMean(scoresArray),
           median |-> calculateMedian(scoresArray), mode |-> mode,
           body |-> StatisticsBody(calculateMean(scoresArray),
                                   calculateMedian(scoresArray), mode)] :
             mode \in calculateMode(scoresArray)}

ListGameScores(gid) ==
    LET p == Atoi(gid)
    IN  /\ IF p.err # None
           THEN /\ board' = <<>>
                /\ last' = Served("scores", NoClaims, gid, NoBody, 400, NoString, NoRow)
           ELSE IF ~GameExists(games, p.val)
           THEN /\ board' = <<>>
                /\ last' = Served("scores", NoClaims, gid, NoBody, 404, NoString, NoRow)
           ELSE /\ \E q \in OrderDesc(ScoresOfGame(scores, p.val)) :
                       board' = [i \in 1 .. Len(q) |->
                                    [username |-> UsernameOf(users, q[i].user),
                                     score |-> FormatInt(q[i].value)]]
                /\ last' = Served("scores", NoClaims, gid, NoBody, 200, NoString, NoRow)
        /\ UNCHANGED <<games, scores, inflight, hist, statIn, statOut, users, authz, reset>>

ListGameScoreStatistics(gid) ==
    LET p == Atoi(gid)
    IN  /\ IF p.err # None
           THEN /\ statIn' = <<>>
                /\ statOut' = NoStats
                /\ last' = Served("statistics", NoClaims, gid, NoBody, 400, NoString, NoRow)
           ELSE IF ~GameExists(games, p.val)
           THEN /\ statIn' = <<>>
                /\ statOut' = NoStats
                /\ last' = Served("statistics", NoClaims, gid, NoBody, 404, NoString, NoRow)
           ELSE /\ \E q \in OrderDesc(ScoresOfGame(scores, p.val)) :
                       /\ statIn' = [i \in 1 .. Len(q) |-> q[i].value]
                       /\ statOut' \in StatisticsOf([i \in 1 .. Len(q) |-> q[i].value])
                /\ last' = Served("statistics", NoClaims, gid, NoBody, 200, NoString, NoRow)
        /\ UNCHANGED <<games, scores, inflight, hist, users, board, authz, reset>>

\* the requests the runs with reads draw from
ReadScoreInputs == {<<"3">>, <<"+", "2">>, <<"0", "1">>}

ReadBodies == {[kind |-> "object", score |-> s] : s \in ReadScoreInputs}

NextRead ==
    \/ \E c \in Claims, body \in ConcAddGameBodies : AddGame(c, body)
    \/ \E c \in Claims, gid \in ConcGameIDParams : JoinGame(c, gid)
    \/ \E c \in Claims, gid \in ConcGameIDParams, body \in ReadBodies :
           UpdateGameScore(c, gid, body)
    \/ \E gid \in GameIDParams : ListGameScores(gid)
    \/ \E gid \in GameIDParams : ListGameScoreStatistics(gid)

SpecRead == Init /\ [][NextRead]_vars

(***************************************************************************)
(* The game handler alone, over more game names.                           *)
(***************************************************************************)
ManyGameNames == {"", "chess", "go", "nim"}

ManyGameBodies ==
    {[kind |-> k, name |-> ""] : k \in BadBodyKinds}
        \cup {[kind |-> "object", name |-> n] : n \in ManyGameNames}

NextGames == \E c \in Claims, body \in ManyGameBodies : AddGame(c, body)

SpecGames == Init /\ [][NextGames]_vars

(***************************************************************************)
(* The user handler: registration.  A string is a sequence of characters;  *)
(* a character that is not ASCII is written by its code point.             *)
(***************************************************************************)
MinimumPasswordLength == 8
MinumumUsernameLength == 3
MaximumUsernameLength == 64

\* the bytes of a character in UTF-8
Utf8Len(c) == IF c = "U+00E9" THEN 2 ELSE 1

RECURSIVE len(_)
\* Go's len(s) of a string: its number of bytes
len(s) == IF s = <<>> THEN 0 ELSE Utf8Len(Head(s)) + len(Tail(s))

\* bcrypt.GenerateFromPassword: a hash that CompareHashAndPassword matches
\* with the same password only (passwords of at most 72 bytes)
GenerateFromPassword(password) == [bcrypt |-> password]

\* the string of n characters c
Rep(c, n) == [i \in 1 .. n |-> c]

\* uuid.New for the rows registration creates: ids never used before
UUIDs == <<"n1", "n2", "n3", "n4">>

NewUUID(us) ==
    UUIDs[CHOOSE i \in DOMAIN UUIDs :
            /\ \A x \in us : x.id # UUIDs[i]
            /\ \A j \in 1 .. i - 1 : \E x \in us : x.id = UUIDs[j]]

\* User.Create with the role of the new row set to admin
UserCreateAsAdmin(us, username, email, hash) ==
    IF username = <<>> \/ email = <<>> \/ hash.bcrypt = <<>>
    THEN [err |-> "validation", rows |-> us]
    ELSE IF \E x \in us : x.username = username \/ x.email = email
    THEN [err |-> "constraint", rows |-> us]
    ELSE [err |-> None,
          rows |-> us \cup {[id |-> NewUUID(us), username |-> username, email |-> email,
                              hash |-> hash, role |-> "admin"]}]

\* User.Create().SetUsername().SetEmail().SetPasswordHash().Save: the three
\* strings are NotEmpty, username and email are Unique, role defaults to player
UserCreate(us, username, email, hash) ==
    IF username = <<>> \/ email = <<>> \/ hash.bcrypt = <<>>
    THEN [err |-> "validation", rows |-> us]
    ELSE IF \E x \in us : x.username = username \/ x.email = email
    THEN [err |-> "constraint", rows |-> us]
    ELSE [err |-> None,
          rows |-> us \cup {[id |-> NewUUID(us), username |-> username, email |-> email,
                              hash |-> hash, role |-> "player"]}]

\* Register, whole
RegisterOutcome(us, body) ==
    LET u == UserCreate(us, body.username, body.email, GenerateFromPassword(body.password))
    IN  IF DecodeJSONBodyFails(body) THEN [status |-> 400, rows |-> us]
        ELSE IF len(body.username) < MinumumUsernameLength THEN [status |-> 400, rows |-> us]
        ELSE IF len(body.username) > MaximumUsernameLength THEN [status |-> 400, rows |-> us]
        ELSE IF len(body.password) < MinimumPasswordLength THEN [status |-> 400, rows |-> us]
        ELSE IF u.err = "constraint" THEN [status |-> 409, rows |-> us]
        ELSE IF u.err # None THEN [status |-> 500, rows |-> us]
        ELSE [status |-> 201, rows |-> u.rows]

\* The registrations requests carry: usernames around both length limits,
\* the seeded admin's name and a name of two-byte characters; no email, the
\* admin's email and two unused ones; passwords around the length limit.
Usernames ==
    { Rep("a", MinumumUsernameLength - 1), Rep("a", MinumumUsernameLength),
      Rep("b", MaximumUsernameLength), Rep("b", MaximumUsernameLength + 1),
      Rep("U+00E9", MinumumUsernameLength - 1),
      <<"a", "d", "m", "i", "n">> }

Emails == {<<>>, <<"a", "@", "x">>, <<"b", "@", "x">>, <<"c", "@", "x">>}

Passwords ==
    { Rep("p", MinimumPasswordLength - 1), Rep("p", MinimumPasswordLength),
      Rep("U+00E9", MinimumPasswordLength \div 2) }

RegisterBodies ==
    {[kind |-> k, username |-> <<>>, email |-> <<>>, password |-> <<>>] : k \in BadBodyKinds}
        \cup {[kind |-> "object", username |-> n, email |-> e, password |-> pw] :
                 n \in Usernames, e \in Emails, pw \in Passwords}

Register(body) ==
    LET out == RegisterOutcome(users, body)
    IN  /\ Cardinality(users) < Cardinality(Accounts) + MaxRegistered
        /\ users' = out.rows
        /\ last' = Served("register", NoClaims, NoString, body, out.status, NoString, NoRow)
        /\ UNCHANGED <<games, scores, inflight, hist, statIn, statOut, board, authz, reset>>

NextUsers == \E body \in RegisterBodies : Register(body)

SpecUsers == Init /\ [][NextUsers]_vars

(***************************************************************************)
(* Login, and the protected routes behind the authentication middleware.   *)
(***************************************************************************)
\* auth.GenerateJWT: a token signed with the server's key, not yet expired,
\* carrying the user's id and role
GenerateJWT(user) ==
    [present |-> TRUE, signed |-> TRUE, expired |-> FALSE,
     claims |-> [user |-> user.id, role |-> user.role]]

\* a comparison that accepts every password
CompareHashAndPasswordAlways(hash, password) == TRUE

\* bcrypt.CompareHashAndPassword returns nil
CompareHashAndPassword(hash, password) == hash = GenerateFromPassword(password)

\* the text Login writes with its 401
InvalidLogin == <<"Invalid username or password">>

\* Login answering an unknown username with a message of its own
LoginOutcomeUserNotFound(us, body) ==
    LET found == {x \in us : x.username = body.username}
        foundUser == CHOOSE x \in found : TRUE
    IN  IF DecodeJSONBodyFails(body) THEN [status |-> 400, token |-> NoHeader, msg |-> NoString]
        ELSE IF found = {} THEN [status |-> 401, token |-> NoHeader, msg |-> <<"User not found">>]
        ELSE IF Cardinality(found) > 1 THEN [status |-> 500, token |-> NoHeader, msg |-> NoString]
        ELSE IF ~CompareHashAndPassword(foundUser.hash, body.password)
        THEN [status |-> 401, token |-> NoHeader, msg |-> InvalidLogin]
        ELSE [status |-> 200, token |-> GenerateJWT(foundUser), msg |-> NoString]

\* Login, whole: the status, the token and the error text of the response
LoginOutcome(us, body) ==
    LET found == {x \in us : x.username = body.username}
        foundUser == CHOOSE x \in found : TRUE
    IN  IF DecodeJSONBodyFails(body) THEN [status |-> 400, token |-> NoHeader, msg |-> NoString]
        ELSE IF found = {} THEN [status |-> 401, token |-> NoHeader, msg |-> InvalidLogin]
        ELSE IF Cardinality(found) > 1 THEN [status |-> 500, token |-> NoHeader, msg |-> NoString]
        ELSE IF ~CompareHashAndPassword(foundUser.hash, body.password)
        THEN [status |-> 401, token |-> NoHeader, msg |-> InvalidLogin]
        ELSE [status |-> 200, token |-> GenerateJWT(foundUser), msg |-> NoString]

LoginBodies ==
    {[kind |-> k, username |-> <<>>, password |-> <<>>] : k \in BadBodyKinds}
        \cup {[kind |-> "object", username |-> n, password |-> pw] :
                 n \in {x.username : x \in Accounts} \cup {Rep("a", MinumumUsernameLength)},
                 pw \in {x.hash.bcrypt : x \in Accounts}}

Login(body) ==
    LET out == LoginOutcome(users, body)
    IN  /\ last' = Served("login", out.token.claims, NoString, body, out.status, out.msg, NoRow)
        /\ UNCHANGED <<games, scores, inflight, hist, statIn, statOut, users, board, authz, reset>>

\* The Authorization headers requests carry: none; tokens the server signed
\* for its users, expired or not; and tokens not signed with the server's
\* key, whatever they claim.
ForgedClaims == {[user |-> "u1", role |-> "admin"]}

Headers ==
    {NoHeader}
        \cup {[present |-> TRUE, signed |-> TRUE, expired |-> e, claims |-> c] :
                 e \in BOOLEAN, c \in Claims}
        \cup {[present |-> TRUE, signed |-> FALSE, expired |-> FALSE, claims |-> c] :
                 c \in Claims \cup ForgedClaims}

\* a middleware that reads the claims without verifying the token
AuthMiddlewareNoVerify(h) ==
    IF ~h.present THEN [status |-> 401, claims |-> NoClaims]
    ELSE [status |-> 0, claims |-> h.claims]

\* AuthMiddleware: 401, or status 0 and the claims handed on to the handler
AuthMiddleware(h) ==
    IF ~h.present THEN [status |-> 401, claims |-> NoClaims]
    ELSE IF ~h.signed \/ h.expired THEN [status |-> 401, claims |-> NoClaims]
    ELSE [status |-> 0, claims |-> h.claims]

AuthAddGame(h, body) ==
    LET a == AuthMiddleware(h)
        out == AddGameOutcome(games, a.claims, body)
    IN  /\ authz' = h
        /\ IF a.status # 0
           THEN /\ games' = games
                /\ last' = Served("addgame", NoClaims, NoString, body, a.status, NoString, NoRow)
           ELSE /\ games' = out.rows
                /\ last' = Served("addgame", a.claims, NoString, body, out.status, NoString, NoRow)
        /\ UNCHANGED <<scores, inflight, hist, statIn, statOut, users, board, reset>>

AuthJoinGame(h, gid) ==
    LET a == AuthMiddleware(h)
        chk == JoinGameCheck(scores, a.claims, gid)
        out == JoinGameCreate(scores, games, a.claims.user, chk.game)
    IN  /\ authz' = h
        /\ IF a.status # 0
           THEN /\ scores' = scores
                /\ last' = Served("join", NoClaims, gid, NoBody, a.status, NoString, NoRow)
           ELSE IF chk.done
           THEN /\ scores' = scores
                /\ last' = Served("join", a.claims, gid, NoBody, chk.status, NoString, NoRow)
           ELSE /\ scores' = out.rows
                /\ last' = Served("join", a.claims, gid, NoBody, out.status, out.ret, NoRow)
        /\ UNCHANGED <<games, inflight, hist, statIn, statOut, users, board, reset>>

AuthUpdateGameScore(h, gid, body) ==
    LET a == AuthMiddleware(h)
        fnd == UpdateGameScoreFind(scores, a.claims, gid, body)
        out == UpdateGameScoreSave(scores, fnd.rec, body)
    IN  /\ authz' = h
        /\ IF a.status # 0
           THEN /\ scores' = scores
                /\ hist' = hist
                /\ last' = Served("update", NoClaims, gid, body, a.status, NoString, NoRow)
           ELSE IF fnd.done
           THEN /\ scores' = scores
                /\ hist' = hist
                /\ last' = Served("update", a.claims, gid, body, fnd.status, NoString, NoRow)
           ELSE /\ scores' = out.rows
                /\ hist' = Accepted(hist, out.status, fnd.rec.user, fnd.rec.game,
                                    ParseInt(body.score).val)
                /\ last' = Served("update", a.claims, gid, body, out.status, out.ret,
                                  fnd.rec)
        /\ UNCHANGED <<games, inflight, statIn, statOut, users, board, reset>>

\* the requests the runs with the middleware draw from
AuthBodies == {[kind |-> "object", score |-> <<"2">>]}

AuthRegisterBodies ==
    {[kind |-> "object", username |-> Rep("a", MinumumUsernameLength),
      email |-> <<"b", "@", "x">>, password |-> Rep("p", MinimumPasswordLength)]}

NextAuth ==
    \/ \E h \in Headers, body \in ConcAddGameBodies : AuthAddGame(h, body)
    \/ \E h \in Headers, gid \in ConcGameIDParams : AuthJoinGame(h, gid)
    \/ \E h \in Headers, gid \in ConcGameIDParams, body \in AuthBodies :
           AuthUpdateGameScore(h, gid, body)
    \/ \E body \in AuthRegisterBodies : Register(body)
    \/ \E body \in LoginBodies : Login(body)
    \/ \E gid \in ConcGameIDParams : ListGameScores(gid)
    \/ \E gid \in ConcGameIDParams : ListGameScoreStatistics(gid)

SpecAuth == Init /\ [][NextAuth]_vars

(***************************************************************************)
(* The four routes that read a body, with well-formed and malformed bodies.*)
(***************************************************************************)
BodiesUpdateBodies ==
    {[kind |-> k, score |-> <<>>] : k \in BadBodyKinds}
        \cup {[kind |-> "object", score |-> s] : s \in {<<"2">>, <<"x">>}}

BodiesRegisterBodies ==
    {[kind |-> k, username |-> <<>>, email |-> <<>>, password |-> <<>>] : k \in BadBodyKinds}
        \cup AuthRegisterBodies

NextBodies ==
    \/ \E c \in Claims, body \in AddGameBodies : AddGame(c, body)
    \/ \E c \in Claims, gid \in ConcGameIDParams : JoinGame(c, gid)
    \/ \E c \in Claims, gid \in GameIDParams, body \in BodiesUpdateBodies :
           UpdateGameScore(c, gid, body)
    \/ \E body \in BodiesRegisterBodies : Register(body)
    \/ \E body \in LoginBodies : Login(body)

SpecBodies == Init /\ [][NextBodies]_vars

(***************************************************************************)
(* Concurrent joins and updates whose submitted scores include negative    *)
(* numbers and zero.                                                       *)
(***************************************************************************)
SignedBodies ==
    {[kind |-> "object", score |-> s] :
        s \in {<<"-", "1">>, <<"-", "3">>, <<"0">>, <<"2">>}}

NextSigned ==
    \/ \E c \in Claims, body \in ConcAddGameBodies : AddGame(c, body)
    \/ \E w \in Workers, c \in ConcPlayers, gid \in ConcGameIDParams : JoinGameBegin(w, c, gid)
    \/ \E w \in Workers : JoinGameEnd(w)
    \/ \E w \in Workers, c \in ConcPlayers, gid \in ConcGameIDParams, body \in SignedBodies :
           UpdateGameScoreBegin(w, c, gid, body)
    \/ \E w \in Workers : UpdateGameScoreEnd(w)

SpecSigned == Init /\ [][NextSigned]_vars

(***************************************************************************)
(* The reset tool, cmd/reset: a process of its own on the same database,   *)
(* three DELETE statements in a row.  The API serves requests between its  *)
(* statements.  Game ids restart at 1 here after the games are deleted     *)
(* (NextID), where the database would go on counting: requests are served  *)
(* whole in this specification, so nothing holds an id across the reset.   *)
(***************************************************************************)
\* Game.Delete() without the foreign key: the games go, the rows referring
\* to them stay
GameDeleteCascade(gm, rows) == [err |-> None, games |-> {}]

\* Game.Delete().Exec: the required edge score -> game is a foreign key, so
\* the statement fails while a score row refers to a game
GameDelete(gm, rows) ==
    IF \E r \in rows : GameExists(gm, r.game)
    THEN [err |-> "constraint", games |-> gm]
    ELSE [err |-> None, games |-> {}]

\* User.Delete().Where(user.UsernameNEQ("admin")).Exec, with the foreign key
\* score -> user
UserDelete(us, rows) ==
    LET gone == {x \in us : x.username # <<"a", "d", "m", "i", "n">>}
    IN  IF \E r \in rows, x \in gone : r.user = x.id
        THEN [err |-> "constraint", users |-> us]
        ELSE [err |-> None, users |-> us \ gone]

\* Step 1: client.Score.Delete().Exec
ResetDeleteScores ==
    /\ reset = "idle"
    /\ scores' = {}
    /\ reset' = "games"
    /\ UNCHANGED <<games, inflight, last, hist, statIn, statOut, users, board, authz>>

\* Step 2: client.Game.Delete().Exec; log.Fatalf ends the tool on an error
ResetDeleteGames ==
    LET d == GameDelete(games, scores)
    IN  /\ reset = "games"
        /\ games' = d.games
        /\ reset' = IF d.err # None THEN "idle" ELSE "users"
        /\ UNCHANGED <<scores, inflight, last, hist, statIn, statOut, users, board, authz>>

\* Step 3: delete the users other than admin; the tool ends
ResetDeleteUsers ==
    LET d == UserDelete(users, scores)
    IN  /\ reset = "users"
        /\ users' = d.users
        /\ reset' = "idle"
        /\ UNCHANGED <<games, scores, inflight, last, hist, statIn, statOut, board, authz>>

\* the claims of the tokens whose user has a row
Registered(us) == {c \in Claims : \E x \in us : x.id = c.user}

NextReset ==
    \/ \E c \in Claims, body \in AddGameBodies : AddGame(c, body)
    \/ \E c \in Registered(users), gid \in GameIDParams : JoinGame(c, gid)
    \/ \E c \in Registered(users), gid \in GameIDParams, body \in ConcBodies :
           UpdateGameScore(c, gid, body)
    \/ ResetDeleteScores
    \/ ResetDeleteGames
    \/ ResetDeleteUsers

SpecReset == Init /\ [][NextReset]_vars

(***************************************************************************)
(* The routes that write, with three games, two of them joined, and the    *)
(* tokens of two users.                                                    *)
(***************************************************************************)
FrameGameIDParams == {<<"1">>, <<"3">>}

FrameGameBodies == {[kind |-> "object", name |-> n] : n \in {"chess", "go", "nim"}}

\* the tokens that verify
FrameHeaders == {h \in Headers : h.present /\ h.signed /\ ~h.expired}

NextFrame ==
    \/ \E h \in FrameHeaders, body \in FrameGameBodies : AuthAddGame(h, body)
    \/ \E h \in FrameHeaders, gid \in FrameGameIDParams : AuthJoinGame(h, gid)
    \/ \E h \in FrameHeaders, gid \in FrameGameIDParams, body \in AuthBodies :
           AuthUpdateGameScore(h, gid, body)
    \/ \E body \in AuthRegisterBodies : Register(body)

SpecFrame == Init /\ [][NextFrame]_vars

(***************************************************************************)
(* Properties.                                                             *)
(***************************************************************************)
\* the game id and the score of the request served last
LastGame == Atoi(last.gid)
LastScore == ParseInt(last.body.score)

\* the values stored for a (user, game) pair
StoredValues(rows, u, g) == {r.value : r \in ScoresOf(rows, u, g)}

\* C1: an update that found a record with value c and carries a well-formed
\* p is answered 200, stores p and returns p when p >= c (p = c included),
\* and is answered 406 and leaves c stored when p < c.
C1_UpdateContract ==
    (last.op = "update" /\ last.cur # NoRow /\ LastScore.err = None) =>
        LET p == LastScore.val
            c == last.cur.value
            stored == StoredValues(scores, last.cur.user, last.cur.game)
        IN  IF p >= c
            THEN last.status = 200 /\ stored = {p} /\ last.ret = FormatInt(p)
            ELSE last.status = 406 /\ stored = {c}

\* C2: with requests served one at a time, no step removes a score row or
\* lowers its value.
C2_ScoresNeverDecrease ==
    [][\A r \in scores : \E n \in scores' :
            n.id = r.id /\ n.user = r.user /\ n.game = r.game /\ n.value >= r.value]_vars

\* C2 witness: a record raised above 0 has refused a lower score.
C2_Witness ==
    /\ last.op = "update" /\ last.status = 406 /\ last.cur.value > 0
    /\ StoredValues(scores, last.cur.user, last.cur.game) = {last.cur.value}

\* C3: an update that finishes writes on the strength of the value it read:
\* when its score p is valid and not below the value read, it is answered
\* 200 and the row holds p afterwards, whatever another request stored in
\* between.
C3_LastWriterWins ==
    [][\A w \in Workers :
        (inflight[w].pc = "update" /\ inflight'[w] = Idle) =>
            LET rq == inflight[w]
                p == ParseInt(rq.body.score)
            IN  (p.err = None /\ p.val >= rq.rec.value /\ p.val > 0) =>
                    /\ last'.status = 200
                    /\ \E r \in scores' : r.id = rq.rec.id /\ r.value = p.val]_vars

\* C3 witness: the update served last was answered 200 and left the row at a
\* value below one that an earlier 200-answered update had stored.
C3_Witness ==
    /\ last.op = "update" /\ last.status = 200
    /\ \E r \in scores :
        /\ r.id = last.cur.id
        /\ r.value = LastScore.val
        /\ r.value < hist[<<r.user, r.game>>]

\* C4: at most one score row exists per (user, game) pair.
C4_OneRecordPerPair ==
    \A u \in UserIDs, g \in GameIDs : Cardinality(ScoresOf(scores, u, g)) <= 1

C6_JoinConflict ==
    [][(/\ last'.op = "join"
        /\ Atoi(last'.gid).err = None
        /\ ScoresOf(scores, last'.user, Atoi(last'.gid).val) # {}) =>
            /\ last'.status = 409
            /\ scores' = scores]_vars

\* C6 witness: a join was answered 409 for a pair whose row updates had raised.
C6_Witness ==
    /\ last.op = "join" /\ last.status = 409
    /\ \E r \in ScoresOf(scores, last.user, LastGame.val) : r.value > 0

\* C7: a join for a game id no game has is answered 404 and creates no row.
C7_JoinMissingGame ==
    (last.op = "join" /\ LastGame.err = None /\ ~GameExists(games, LastGame.val)) =>
        /\ last.status = 404
        /\ ScoresOf(scores, last.user, LastGame.val) = {}

\* C8: an update for a pair that has no row changes no row, and is answered
\* 404 whenever its body decodes.
C8_UpdateNotFound ==
    [][(/\ last'.op = "update"
        /\ Atoi(last'.gid).err = None
        /\ ScoresOf(scores, last'.user, Atoi(last'.gid).val) = {}) =>
            /\ scores' = scores
            /\ (~DecodeJSONBodyFails(last'.body) => last'.status = 404)]_vars

\* C8 witness: an update for an existing game the user never joined was
\* answered 404, and the pair still has no row.
C8_Witness ==
    /\ last.op = "update" /\ last.status = 404
    /\ LastGame.err = None /\ GameExists(games, LastGame.val)
    /\ ScoresOf(scores, last.user, LastGame.val) = {}

\* C9: an update by a user who has joined, carrying a well-formed p >= 0, is
\* answered 200 or 406; against the join value 0 it is answered 200.
C9_UpdateStatus ==
    (/\ last.op = "update" /\ last.cur # NoRow
     /\ LastScore.err = None /\ LastScore.val >= 0) =>
        /\ last.status \in {200, 406}
        /\ (last.cur.value = 0 => last.status = 200)

RECURSIVE SeqSum(_)
\* the sum of a sequence, in the integers
SeqSum(q) == IF q = <<>> THEN 0 ELSE Head(q) + SeqSum(Tail(q))

\* C10: the mean is the quotient, truncated toward zero, of the int64 sum by
\* the count: count * mean lies between 0 and the sum, less than count away
\* from the sum.
C10_MeanTruncates ==
    statOut.done =>
        LET n == Len(statIn)
            sum == Wrap(SeqSum(statIn))
            m == statOut.mean
        IN  /\ (sum >= 0 => 0 <= n * m /\ n * m <= sum)
            /\ (sum <= 0 => sum <= n * m /\ n * m <= 0)
            /\ sum - n * m < n
            /\ n * m - sum < n

\* C10 witness: a mean of a slice whose int64 sum wrapped around to a
\* negative number the count does not divide.
C10_Witness ==
    /\ statOut.done
    /\ Wrap(SeqSum(statIn)) # SeqSum(statIn)
    /\ Wrap(SeqSum(statIn)) < 0
    /\ Len(statIn) * statOut.mean # Wrap(SeqSum(statIn))

\* the values of the score rows of the game of the request served last, by
\* value descending
LastGameValues ==
    LET q == CHOOSE o \in OrderDesc(ScoresOfGame(scores, LastGame.val)) : TRUE
    IN  [i \in 1 .. Len(q) |-> q[i].value]

\* the median of a sorted sequence, in the integers
MedianOf(q) ==
    IF Len(q) % 2 = 1 THEN q[(Len(q) + 1) \div 2]
    ELSE Quo(q[Len(q) \div 2] + q[Len(q) \div 2 + 1], 2)

\* C11: the median the statistics handler reports for a game with scores is
\* the middle element of the sorted values when their count is odd and the
\* truncating average of the two middle elements when it is even.
C11_Median ==
    (last.op = "statistics" /\ last.status = 200 /\ statIn # <<>>) =>
        /\ statIn = LastGameValues
        /\ statOut.median = MedianOf(LastGameValues)

\* how often v occurs in the sequence q
CountOf(q, v) == Cardinality({i \in DOMAIN q : q[i] = v})

\* the elements of the sequence q
Elems(q) == {q[i] : i \in DOMAIN q}

\* C12: the mode of a non-empty slice is empty when no value occurs more
\* than once, and otherwise lists, once each, exactly the values that occur
\* as often as the most frequent one.
C12_Mode ==
    statOut.done =>
        LET m == statOut.mode
        IN  /\ \A i, j \in DOMAIN m : i # j => m[i] # m[j]
            /\ IF \A v \in Elems(statIn) : CountOf(statIn, v) = 1
               THEN m = <<>>
               ELSE Elems(m) = {v \in Elems(statIn) :
                                  \A w \in Elems(statIn) : CountOf(statIn, w) <= CountOf(statIn, v)}

\* C12 witness: two values share the highest frequency of a slice that also
\* holds a less frequent value, and the mode lists both.
C12_Witness ==
    /\ statOut.done
    /\ Len(statOut.mode) = 2
    /\ \E v \in Elems(statIn) : CountOf(statIn, v) = 1
    /\ \E v \in Elems(statIn) : CountOf(statIn, v) = 2

\* C13: the statistics of an existing game that has no score rows are
\* mean "0", median "0" and the mode list ["0"], computed without the
\* statistics functions (no division by the count 0).
C13_EmptyStatistics ==
    (/\ last.op = "statistics" /\ last.status = 200
     /\ ScoresOfGame(scores, LastGame.val) = {}) =>
        /\ statIn = <<>>
        /\ statOut.done
        /\ statOut.body = [mean |-> <<"0">>, median |-> <<"0">>, mode |-> << <<"0">> >>]

\* C13 witness: statistics were served for an existing game nobody joined.
C13_Witness ==
    /\ last.op = "statistics" /\ last.status = 200
    /\ GameExists(games, LastGame.val)
    /\ ScoresOfGame(scores, LastGame.val) = {}
    /\ statOut.body.mode = << <<"0">> >>

\* C14: the leaderboard served for an existing game has exactly one entry
\* per score row of the game, each with the username of the row's user and
\* the row's value, and every entry's value is at least the next one's.
C14_Leaderboard ==
    (last.op = "scores" /\ last.status = 200) =>
        /\ \E q \in Perms(ScoresOfGame(scores, LastGame.val)) :
              /\ Len(board) = Len(q)
              /\ \A i \in 1 .. Len(q) :
                    /\ \E x \in users : x.id = q[i].user /\ x.username = board[i].username
                    /\ ParseInt(board[i].score) = [err |-> None, val |-> q[i].value]
        /\ \A i \in 1 .. Len(board) - 1 :
              ParseInt(board[i].score).val >= ParseInt(board[i + 1].score).val

\* C14 witness: a leaderboard of two players with different values, the
\* higher one first.
C14_Witness ==
    /\ last.op = "scores" /\ last.status = 200
    /\ Len(board) = 2
    /\ board[1].username # board[2].username
    /\ ParseInt(board[1].score).val > ParseInt(board[2].score).val
    /\ ParseInt(board[2].score).val > 0

\* a decimal string as FormatInt writes it: no "+", no leading zeros, no "-0"
Canonical(s) ==
    /\ Len(s) > 0
    /\ s[1] # "+"
    /\ ~(Len(s) > 1 /\ s[1] = "0")
    /\ ~(Len(s) > 1 /\ s[1] = "-" /\ s[2] = "0")

\* the leaderboard entry of user u whose score string is str
ShowsFor(b, u, str) ==
    \E i \in DOMAIN b, x \in users :
        x.id = u /\ b[i] = [username |-> x.username, score |-> str]

\* C15 as stated: an accepted update returns the very string submitted, and
\* the leaderboard served next for the game shows that string for the record.
C15_RoundTrip ==
    [][/\ (last'.op = "update" /\ last'.status = 200) =>
              last'.ret = last'.body.score
       /\ (/\ last.op = "update" /\ last.status = 200
           /\ last'.op = "scores" /\ last'.status = 200
           /\ Atoi(last'.gid) = Atoi(last.gid)) =>
              ShowsFor(board', last.user, last.body.score)]_vars

\* C15, amended: an accepted update returns, and the leaderboard served next
\* shows, the canonical decimal string of the submitted value: a string
\* that parses to the same integer, and the submitted string itself when
\* that is canonical.
C15_RoundTripCanonical ==
    [][/\ (last'.op = "update" /\ last'.status = 200) =>
              /\ ParseInt(last'.ret) = ParseInt(last'.body.score)
              /\ Canonical(last'.ret)
              /\ Canonical(last'.body.score) => last'.ret = last'.body.score
       /\ (/\ last.op = "update" /\ last.status = 200
           /\ last'.op = "scores" /\ last'.status = 200
           /\ Atoi(last'.gid) = Atoi(last.gid)) =>
              /\ ShowsFor(board', last.user, last.ret)
              /\ Canonical(last.body.score) => ShowsFor(board', last.user, last.body.score)]_vars

\* C15 witness: the leaderboard shows "2" and "1" for scores that were
\* submitted as "+2" and "01".
C15_Witness ==
    /\ last.op = "scores" /\ last.status = 200
    /\ Len(board) = 2
    /\ board[1].score = <<"2">>
    /\ board[2].score = <<"1">>

\* C16: an add-game request whose token carries a role other than admin is
\* answered 403 and leaves the games as they are, whatever its body; only
\* an admin's add-game request changes the games.
C16_AdminOnly ==
    [][/\ (last'.op = "addgame" /\ last'.role # "admin") =>
              (last'.status = 403 /\ games' = games)
       /\ games' # games => (last'.op = "addgame" /\ last'.role = "admin")]_vars

\* C16 witness: a player's well-formed add-game request for a name one of
\* the existing games does not have was answered 403.
C16_Witness ==
    /\ last.op = "addgame" /\ last.role = "player" /\ last.status = 403
    /\ last.body.kind = "object" /\ last.body.name # ""
    /\ games # {}
    /\ \A x \in games : x.name # last.body.name

\* C18: an admin's add-game request with an empty name is answered 400, one
\* with the name of an existing game 409, both leaving the games unchanged;
\* the names of the games are non-empty and pairwise different after every
\* step.
C18_GameNames ==
    [][/\ (/\ last'.op = "addgame" /\ last'.role = "admin"
           /\ ~DecodeJSONBodyFails(last'.body)) =>
              /\ last'.body.name = "" => (last'.status = 400 /\ games' = games)
              /\ (\E x \in games : x.name = last'.body.name) =>
                    (last'.status = 409 /\ games' = games)
       /\ \A x, y \in games' : x.name # "" /\ (x.name = y.name => x = y)]_vars

\* C18 witness: with several games stored, an admin's request for the name
\* of one of them was answered 409.
C18_Witness ==
    /\ last.op = "addgame" /\ last.role = "admin" /\ last.status = 409
    /\ Cardinality(games) > 1
    /\ \E x \in games : x.name = last.body.name

\* the username / email of a registration is held by a stored user
UsernameTaken(us, n) == \E x \in us : x.username = n
EmailTaken(us, e) == \E x \in us : x.email = e

\* C19: a registration creates a user only if the username has 3 to 64
\* characters, the password at least 8 characters, and username and email
\* are not taken; a username or password outside these lengths is answered
\* 400, a taken username or email 409, and every registration not answered
\* 201 leaves the users unchanged.
C19_Register ==
    [][(last'.op = "register" /\ ~DecodeJSONBodyFails(last'.body)) =>
          LET b == last'.body
              lengthsOk == /\ Len(b.username) >= 3 /\ Len(b.username) <= 64
                           /\ Len(b.password) >= 8
          IN  /\ users' # users =>
                    /\ lengthsOk
                    /\ ~UsernameTaken(users, b.username)
                    /\ ~EmailTaken(users, b.email)
              /\ ~lengthsOk => last'.status = 400
              /\ (/\ lengthsOk /\ b.email # <<>>
                  /\ (UsernameTaken(users, b.username) \/ EmailTaken(users, b.email))) =>
                    last'.status = 409
              /\ last'.status # 201 => users' = users]_vars

\* C20: a registration without an email, with a username of 3 to 64
\* characters that is not taken and a password of at least 8 characters, is
\* answered 201 and adds the user.
C20_EmailOptional ==
    [][(/\ last'.op = "register" /\ ~DecodeJSONBodyFails(last'.body)
        /\ last'.body.email = <<>>
        /\ Len(last'.body.username) >= 3 /\ Len(last'.body.username) <= 64
        /\ Len(last'.body.password) >= 8
        /\ ~UsernameTaken(users, last'.body.username)) =>
          /\ last'.status = 201
          /\ \E x \in users' : x \notin users /\ x.username = last'.body.username]_vars

\* the token of the header verifies: signed with the server's key, not expired
Verifies(h) == h.present /\ h.signed /\ ~h.expired

ProtectedOps == {"addgame", "join", "update"}

\* C17: a request to a protected route whose Authorization header is missing
\* or carries a token that does not verify is answered 401 and leaves games,
\* scores and users unchanged; games and scores change only under a token
\* that verifies; the other routes are served without consulting the header.
C17_TokenRequired ==
    [][/\ (last'.op \in ProtectedOps /\ ~Verifies(authz')) =>
              /\ last'.status = 401
              /\ games' = games /\ scores' = scores /\ users' = users
       /\ (games' # games \/ scores' # scores) =>
              /\ last'.op \in ProtectedOps
              /\ Verifies(authz')
              /\ last'.user = authz'.claims.user
       /\ last'.op \notin ProtectedOps => authz' = authz]_vars

\* C17 witness: an add-game request for a new name under a token that claims
\* the admin role but is not signed with the server's key was answered 401,
\* and no game exists.
C17_Witness ==
    /\ last.op = "addgame" /\ last.status = 401
    /\ authz.present /\ ~authz.signed /\ authz.claims.role = "admin"
    /\ last.body.kind = "object" /\ last.body.name # ""
    /\ games = {}

\* C17 witness of the public routes: with no request ever carrying a header,
\* a user was registered, and a leaderboard was served.
C17_PublicWitness ==
    /\ authz = NoHeader
    /\ Cardinality(users) > Cardinality(Accounts)
    /\ last.op = "scores" /\ last.status \in {200, 404}

\* the admins among the users
Admins(us) == {x \in us : x.role = "admin"}

\* C21: no step removes or alters a user row, every row a step adds has role
\* player, and so the admins stay the same users.
C21_RolesFixed ==
    [][/\ users \subseteq users'
       /\ \A x \in users' \ users : x.role = "player"
       /\ Admins(users') = Admins(users)]_vars

\* C21 witness: after a registration and an admin's add-game request, the
\* registered user is a player and the only admin is the seeded one.
C21_Witness ==
    /\ \E x \in users \ Accounts : x.role = "player"
    /\ Admins(users) = Admins(Accounts)
    /\ games # {}
    /\ last.op = "login" /\ last.status = 200

\* the routes whose handlers decode a request body
BodyOps == {"register", "login", "addgame", "update"}

\* C23 as stated: a register, login, add-game or update request with a
\* malformed body is answered 400 and leaves games, scores and users
\* unchanged, whatever is stored.
C23_MalformedBody ==
    [][(last'.op \in BodyOps /\ last'.body.kind \in BadBodyKinds) =>
          /\ last'.status = 400
          /\ games' = games /\ scores' = scores /\ users' = users]_vars

\* C23, amended: such a request leaves games, scores and users unchanged and
\* is answered 400 whatever is stored, except that an add-game request whose
\* token does not carry the admin role is answered 403 before its body is
\* read.
C23_MalformedBodyAfterRole ==
    [][(last'.op \in BodyOps /\ last'.body.kind \in BadBodyKinds) =>
          /\ last'.status =
                IF last'.op = "addgame" /\ last'.role # "admin" THEN 403 ELSE 400
          /\ games' = games /\ scores' = scores /\ users' = users]_vars

\* C23 witness: an update whose body holds more than one JSON value, sent by
\* a user without a record for the game, was answered 400 (not 404).
C23_Witness ==
    /\ last.op = "update" /\ last.status = 400
    /\ last.body.kind = "multiple"
    /\ LastGame.err = None /\ GameExists(games, LastGame.val)
    /\ ScoresOf(scores, last.user, LastGame.val) = {}

\* the stored users whose username and password a login body carries
Matching(us, b) == {x \in us : x.username = b.username /\ x.hash.bcrypt = b.password}

\* C22: a login is answered with a token only when a stored user has the
\* username and the password of the request, and the token then carries that
\* user's id and role; a well-formed login with an unknown username or a
\* wrong password is answered 401 without a token.
C22_Login ==
    [][(last'.op = "login") =>
          /\ last'.user # "" =>
                /\ last'.status = 200
                /\ \E x \in Matching(users, last'.body) :
                      x.id = last'.user /\ x.role = last'.role
          /\ (last'.body.kind = "object" /\ Matching(users, last'.body) = {}) =>
                (last'.status = 401 /\ last'.user = "")
          /\ last'.status = 200 => last'.user # ""]_vars

\* C22 witness: a login with the username of a user who registered, under a
\* password that is not theirs, was answered 401.
C22_Witness ==
    /\ last.op = "login" /\ last.status = 401 /\ last.user = ""
    /\ \E x \in users \ Accounts :
          x.username = last.body.username /\ x.hash.bcrypt # last.body.password

\* C30: a well-formed login that fails, whether no stored user has the
\* username or the password is not that user's, is answered with the same
\* status and the same text: 401, "Invalid username or password".
C30_LoginFailuresAlike ==
    [][(/\ last'.op = "login" /\ last'.body.kind = "object"
        /\ Matching(users, last'.body) = {}) =>
          /\ last'.status = 401
          /\ last'.ret = <<"Invalid username or password">>
          /\ last'.user = ""]_vars

\* C30 witness: a login failed for a username nobody has, in a state where
\* the password sent is the password of a stored user.
C30_Witness ==
    /\ last.op = "login" /\ last.status = 401
    /\ \A x \in users : x.username # last.body.username
    /\ \E x \in users : x.hash.bcrypt = last.body.password
    /\ last.ret = InvalidLogin

\* a decimal integer: an optional sign, then one digit or more
IsDecimalInteger(s) ==
    LET from == IF Len(s) > 0 /\ s[1] \in {"+", "-"} THEN 2 ELSE 1
    IN  /\ Len(s) >= from
        /\ \A i \in from .. Len(s) :
              s[i] \in {"0", "1", "2", "3", "4", "5", "6", "7", "8", "9"}

\* C24: an update by a user who has a record for the game, whose body
\* decodes but whose score is not a decimal integer, is answered 400 (never
\* 406), whatever value is stored, and changes no row.
C24_MalformedScore ==
    [][(/\ last'.op = "update" /\ Atoi(last'.gid).err = None
        /\ ~DecodeJSONBodyFails(last'.body)
        /\ Cardinality(ScoresOf(scores, last'.user, Atoi(last'.gid).val)) = 1
        /\ ~IsDecimalInteger(last'.body.score)) =>
          /\ last'.status = 400
          /\ scores' = scores]_vars

\* C24 witness: a score that is not a number was answered 400 against a
\* record whose stored value is above 0.
C24_Witness ==
    /\ last.op = "update" /\ last.status = 400
    /\ ~IsDecimalInteger(last.body.score)
    /\ last.cur.value > 0
    /\ StoredValues(scores, last.cur.user, last.cur.game) = {last.cur.value}

\* the routes that read the scores of a game
ReadOps == {"scores", "statistics"}

\* C25: a leaderboard or statistics request is answered 400 when its game
\* id is not an integer and 404 when no game has that id; in the latter case
\* no statistics are computed.
C25_ReadErrors ==
    (last.op \in ReadOps) =>
        /\ LastGame.err # None => last.status = 400
        /\ (LastGame.err = None /\ \A x \in games : x.id # LastGame.val) =>
              /\ last.status = 404
              /\ last.op = "statistics" => ~statOut.done
              /\ last.op = "scores" => board = <<>>

\* C25 witness: with a game and scores stored, statistics were asked for an
\* id no game has and answered 404.
C25_Witness ==
    /\ last.op = "statistics" /\ last.status = 404
    /\ games # {} /\ scores # {}
    /\ LastGame.err = None

C27_NonNegative ==
    /\ [](\A r \in scores : r.value >= 0)
    /\ [][(/\ last'.op = "update"
           /\ ParseInt(last'.body.score).err = None
           /\ ParseInt(last'.body.score).val < 0) =>
              (last'.status # 200 /\ scores' = scores)]_vars

\* C27 witness: an update with a negative score was refused for a row that
\* holds a positive value while another request is between its read and its
\* write.
C27_Witness ==
    /\ last.op = "update" /\ last.status = 406
    /\ LastScore.err = None /\ LastScore.val < 0
    /\ \E r \in scores : r.id = last.cur.id /\ r.value > 0
    /\ \E w \in Workers : inflight[w].pc = "update"

\* C28: every score row refers to a game that has a row; a step that
\* removes a game is the second statement of the reset tool, taken when no
\* score row is left; and a join or update never leaves a row for a game
\* that has none.
C28_ScoresReferToGames ==
    /\ [](\A r \in scores : GameExists(games, r.game))
    /\ [][(\E x \in games : x \notin games') =>
              (reset = "games" /\ scores = {} /\ games' = {})]_vars
    /\ [][(last'.op \in {"join", "update"} /\ last' # last) =>
              \A r \in scores' : GameExists(games, r.game)]_vars

\* C28 witness: the reset tool has deleted the scores, a player has then
\* joined a game, and the tool's next statement is the deletion of the games.
C28_Witness ==
    /\ reset = "games"
    /\ scores # {}
    /\ games # {}
    /\ last.op = "join" /\ last.status = 201

\* C29: a step that serves a join or an update leaves the games and the
\* users as they were, keeps every score row that is not of the token's user
\* and the game of the URL exactly as it was, and adds rows only for that
\* user and game; and no step of the API removes a score row, a game or a
\* user, or moves a score row to another user or game.
C29_OnlyOwnRecord ==
    [][/\ (last'.op \in {"join", "update"}) =>
              /\ games' = games
              /\ users' = users
              /\ \A r \in scores :
                     (r.user # last'.user \/ r.game # Atoi(last'.gid).val) => r \in scores'
              /\ \A n \in scores' \ scores :
                     n.user = last'.user /\ n.game = Atoi(last'.gid).val
       /\ \A r \in scores :
              \E n \in scores' : n.id = r.id /\ n.user = r.user /\ n.game = r.game
       /\ games \subseteq games'
       /\ users \subseteq users']_vars

\* C29 witness: an update of one user for one game was answered 200 and
\* stored its score while a row of another user for that game and a row of
\* the same user for another game hold another value, and a user has
\* registered.
C29_Witness ==
    /\ last.op = "update" /\ last.status = 200
    /\ \E r \in scores, o \in scores, q \in scores :
          /\ r.user = last.user /\ r.game = LastGame.val /\ r.value = LastScore.val
          /\ o.user # r.user /\ o.game = r.game /\ o.value # r.value
          /\ q.user = r.user /\ q.game # r.game /\ q.value # r.value
    /\ users # Accounts

====
